---- MODULE Spec2Model ----
(***************************************************************************)
(* Attendance dashboard (src/MYPROJRCT/Dashboard.py): one run of the       *)
(* script over an uploaded attendance sheet, from the file upload through  *)
(* the Duration Deriver, the Duplicate Resolver, the Reshaper, the         *)
(* Punctuality Classifier, the sidebar filters and the aggregates.         *)
(*                                                                         *)
(* Representation.                                                         *)
(*  - A time cell is the text "HH:MM AP" split into its three tokens,      *)
(*    [hh, mm, ap]; ParseTime does what strptime('%I:%M %p') does.         *)
(*  - A number that may be absent (NaN / NaT) is a sequence: <<>> when     *)
(*    absent, <<v>> when present.                                          *)
(*  - Hours are integers in hundredths of an hour (8.5 h = 850), which is  *)
(*    exact for values rounded to 2 decimals.                              *)
(*  - A date is the number of days since 2025-06-01, the default of the    *)
(*    start date widget.                                                   *)
(*  - df.columns is kept as what the script reads from it: the in_ day     *)
(*    indices in column order, the out_ day indices in column order, the   *)
(*    set of hours_ day indices and the set of identity columns.           *)
(***************************************************************************)
EXTENDS Integers, Sequences, FiniteSets, TLC

VARIABLES file, ui, pc, df, duplicate_ids, df_long, filtered_df, kpi,
          monthly_summary_df

vars == <<file, ui, pc, df, duplicate_ids, df_long, filtered_df, kpi,
          monthly_summary_df>>

\* ------------------------------------------------------------------ bounds
\* Most rows of an uploaded sheet (InitRows).
MaxRows == 2
\* Largest day index of an in_/out_ column (InitShape).
MaxDay == 2

\* --------------------------------------------------------------- constants
\* df_long['hours_worked'] >= 8, in hundredths of an hour.
PunctualThreshold == 800

IdentityCols ==
    {"employee_id", "employee_gender", "employee_resident", "employee_department"}

EmployeeIds == {"E1", "E2"}

NaN == <<>>
NaT == <<>>
Num(v) == <<v>>

\* ------------------------------------------------------------- time cells
Cell(h, m, a) == [hh |-> h, mm |-> m, ap |-> a]
T0900AM == Cell(9, 0, "AM")
T0500PM == Cell(5, 0, "PM")
T0520PM == Cell(5, 20, "PM")
\* "13:00 PM": the hour is outside the 12-hour clock of %I.
BadCell == Cell(13, 0, "PM")

\* pd.to_datetime(x, format='%I:%M %p', errors='coerce'): minutes since
\* midnight of the parsed wall-clock time, NaT when the text does not match.
ParseTime(c) ==
    IF c.hh \in 1..12 /\ c.mm \in 0..59 /\ c.ap \in {"AM", "PM"}
    THEN Num(((c.hh % 12) + (IF c.ap = "PM" THEN 12 ELSE 0)) * 60 + c.mm)
    ELSE NaT

\* (.dt.total_seconds() / 3600).round(2) of a difference of m minutes, in
\* hundredths: m * 100 / 60 = 5m/3 rounded to the nearest integer (5m/3 is
\* never half-way between two integers, so the rounding mode plays no part).
Round2Hours(m) == (10 * m + 3) \div 6

\* One cell of df[hours_col]: out - in, NaN when either end is NaT.
HoursBetween(cin, cout) ==
    LET a == ParseTime(cin)
        b == ParseTime(cout)
    IN  IF a = NaT \/ b = NaT THEN NaN ELSE Num(Round2Hours(b[1] - a[1]))

\* --------------------------------------------------------------- sequences
Min(a, b) == IF a <= b THEN a ELSE b

Range(s) == {s[i] : i \in DOMAIN s}

RECURSIVE PickFrom(_, _, _)
\* The elements of s at the indices in Keep, from index i on, in order.
PickFrom(s, i, Keep) ==
    IF i > Len(s) THEN <<>>
    ELSE (IF i \in Keep THEN <<s[i]>> ELSE <<>>) \o PickFrom(s, i + 1, Keep)

RECURSIVE SumSet(_, _)
SumSet(f, S) ==
    IF S = {} THEN 0
    ELSE LET x == CHOOSE y \in S : TRUE IN f[x] + SumSet(f, S \ {x})

\* Sequences without repetition over S, of length 1..Cardinality(S).
DistinctSeqs(S) ==
    UNION {{s \in [1..n -> S] : \A i, j \in 1..n : i # j => s[i] # s[j]} :
           n \in 1..Cardinality(S)}

\* ------------------------------------------------------ Duration Deriver
\* zip(in_cols, out_cols): position i pairs in_cols[i] with out_cols[i]; the
\* column written is hours_<suffix of in_cols[i]>.
ZipLen(t) == Min(Len(t.in_cols), Len(t.out_cols))

DerivedHoursCols(t) == {t.in_cols[i] : i \in 1..ZipLen(t)}

PairedOut(t, k) ==
    LET i == CHOOSE j \in 1..ZipLen(t) : t.in_cols[j] = k IN t.out_cols[i]

DeriveRow(t, r) ==
    [r EXCEPT !.hours =
        [k \in t.hours_cols \cup DerivedHoursCols(t) |->
            IF k \in DerivedHoursCols(t)
            THEN HoursBetween(r.t_in[k], r.t_out[PairedOut(t, k)])
            ELSE r.hours[k]]]

DurationDeriver(t) ==
    [t EXCEPT !.hours_cols = t.hours_cols \cup DerivedHoursCols(t),
              !.rows = [i \in 1..Len(t.rows) |-> DeriveRow(t, t.rows[i])]]

\* ----------------------------------------------------- Duplicate Resolver
\* df.drop_duplicates(): the first of every group of identical rows.
DropDuplicates(rows) ==
    PickFrom(rows, 1, {i \in 1..Len(rows) : \A j \in 1..(i - 1) : rows[j] # rows[i]})

\* df[hours_ columns].sum(axis=1): NaN cells are skipped.
TotalHours(r) ==
    SumSet([k \in DOMAIN r.hours |-> IF r.hours[k] = NaN THEN 0 ELSE r.hours[k][1]],
           DOMAIN r.hours)

\* The sort with ascending=True.
SortedOrdersAscending(rows) ==
    {p \in [1..Len(rows) -> 1..Len(rows)] :
        /\ \A i, j \in 1..Len(rows) : i # j => p[i] # p[j]
        /\ \A i \in 1..(Len(rows) - 1) :
              rows[p[i]].total_hours <= rows[p[i + 1]].total_hours}

\* sort_values('total_hours', ascending=False) with the default
\* kind='quicksort', which is not a stable sort: the result is some table
\* order with non-increasing totals, rows of equal total in any order.
SortedOrders(rows) ==
    {p \in [1..Len(rows) -> 1..Len(rows)] :
        /\ \A i, j \in 1..Len(rows) : i # j => p[i] # p[j]
        /\ \A i \in 1..(Len(rows) - 1) :
              rows[p[i]].total_hours >= rows[p[i + 1]].total_hours}

\* drop_duplicates(subset=['employee_id'], keep='first').
KeepFirstPerId(rows) ==
    PickFrom(rows, 1,
        {i \in 1..Len(rows) :
            \A j \in 1..(i - 1) : rows[j].employee_id # rows[i].employee_id})

WithTotal(r) == r @@ ("total_hours" :> TotalHours(r))

DropTotal(r) == [f \in (DOMAIN r) \ {"total_hours"} |-> r[f]]

\* Lines 132-142 on table t: every table the resolver can return.
ResolveOutcomes(t) ==
    LET uniq == DropDuplicates(t.rows)
        tot  == [i \in 1..Len(uniq) |-> WithTotal(uniq[i])]
    IN  {[t EXCEPT !.rows =
            LET sorted == [i \in 1..Len(tot) |-> tot[p[i]]]
                kept   == KeepFirstPerId(sorted)
            IN  [i \in 1..Len(kept) |-> DropTotal(kept[i])]] :
         p \in SortedOrders(tot)}

\* value_counts() of employee_id restricted to counts above 1.
DuplicateIds(rows) ==
    {e \in {rows[i].employee_id : i \in 1..Len(rows)} :
        Cardinality({i \in 1..Len(rows) : rows[i].employee_id = e}) > 1}

\* --------------------------------------------------------------- the input
Row(e, g, res, dep, tin, tout, hrs) ==
    [employee_id |-> e, employee_gender |-> g, employee_resident |-> res,
     employee_department |-> dep, t_in |-> tin, t_out |-> tout, hours |-> hrs]

Table(up, ids, ins, outs, hcols, rows) ==
    [uploaded |-> up, idcols |-> ids, in_cols |-> ins, out_cols |-> outs,
     hours_cols |-> hcols, rows |-> rows]

NoFile == Table(FALSE, {}, <<>>, <<>>, {}, <<>>)

EmptyFn == [k \in {} |-> NaN]

\* Untouched widgets: "All" employees, "All" residency, every department,
\* the whole date range, start date 2025-06-01.
DefaultUi ==
    [employee |-> "All", residency |-> "All", dept_touched |-> FALSE,
     departments |-> {}, range_touched |-> FALSE, date_range |-> <<0, 0>>,
     start_date |-> 0]

\* A day's punch: the in cell and the out cell of one day.
DayPunches ==
    {<<T0900AM, T0500PM>>, <<T0900AM, T0520PM>>, <<T0500PM, T0900AM>>,
     <<T0900AM, BadCell>>}

PairedDays == <<1, 2>>

\* Rows of a sheet with the columns in_1, out_1, in_2, out_2.
PairedRows ==
    {Row(e, "F", "Local", "HR",
         [k \in Range(PairedDays) |-> p[k][1]],
         [k \in Range(PairedDays) |-> p[k][2]], EmptyFn) :
        e \in EmployeeIds, p \in [Range(PairedDays) -> DayPunches]}

\* Sheets with in_1, out_1, in_2, out_2 and up to MaxRows rows, the widgets
\* untouched.
InitRows ==
    /\ file \in {NoFile} \cup
          {Table(TRUE, IdentityCols, PairedDays, PairedDays, {}, rows) :
              rows \in UNION {[1..n -> PairedRows] : n \in 1..MaxRows}}
    /\ ui = DefaultUi

ShapeCells == {T0900AM, T0520PM}

\* A hours_1 cell that the sheet already carries: 4.0 hours.
CarriedHours == Num(4 * 100)

\* Sheets of one row whose columns vary: an identity column may be absent,
\* the in_ and the out_ columns come in any number and order with day
\* indices up to MaxDay, and the sheet may already carry a hours_1 column.
InitShape ==
    /\ \E ids \in {IdentityCols} \cup {IdentityCols \ {c} : c \in IdentityCols},
          ins \in DistinctSeqs(1..MaxDay),
          outs \in DistinctSeqs(1..MaxDay),
          hcols \in {{}, {1}} :
          \E tin \in [Range(ins) -> ShapeCells], tout \in [Range(outs) -> ShapeCells] :
             file = Table(TRUE, ids, ins, outs, hcols,
                          <<Row("E1", "F", "Local", "HR", tin, tout,
                                [k \in hcols |-> CarriedHours])>>)
    /\ ui = DefaultUi

Residents == {"Local", "NON-LOCAL"}

DepartmentNames == {"HR", "IT"}

\* Sheets of two employees, and the widgets set by the user: an employee or
\* "All", a residency or "All", any set of the departments on offer, a date
\* range, and the start date 2025-06-01 or 2025-06-30.
InitFilter ==
    /\ file \in
          {Table(TRUE, IdentityCols, PairedDays, PairedDays, {},
                 <<Row("E1", "F", r1, d1,
                       (1 :> T0900AM) @@ (2 :> T0900AM),
                       (1 :> T0500PM) @@ (2 :> T0520PM), EmptyFn),
                   Row("E2", "M", r2, d2,
                       (1 :> T0900AM) @@ (2 :> T0500PM),
                       (1 :> BadCell) @@ (2 :> T0900AM), EmptyFn)>>) :
              r1 \in Residents, r2 \in Residents,
              d1 \in DepartmentNames, d2 \in DepartmentNames}
    /\ ui \in
          [employee : {"All", "E1", "E2"},
           residency : {"All", "Local", "Non-local"},
           dept_touched : {TRUE},
           departments : SUBSET {file.rows[i].employee_department : i \in 1..2},
           range_touched : {TRUE},
           date_range : {<<0, 29>>, <<30, 30>>, <<1, 1>>, <<45, 50>>},
           start_date : {0, 29}]

Init ==
    /\ InitRows \/ InitShape \/ InitFilter
    /\ pc = "upload"
    /\ df = NoFile
    /\ duplicate_ids = {}
    /\ df_long = <<>>
    /\ filtered_df = <<>>
    /\ kpi = <<>>
    /\ monthly_summary_df = {}

\* ------------------------------------------------------------------ steps
\* Lines 103-113: the uploaded file becomes df, or the script stops.
LoadFile ==
    /\ pc = "upload"
    /\ IF file.uploaded
       THEN df' = file /\ pc' = "derive"
       ELSE df' = df /\ pc' = "stopped"
    /\ UNCHANGED <<file, ui, duplicate_ids, df_long, filtered_df, kpi,
                   monthly_summary_df>>

\* Lines 116-125.
DeriveHours ==
    /\ pc = "derive"
    /\ df' = DurationDeriver(df)
    /\ pc' = "dedup"
    /\ UNCHANGED <<file, ui, duplicate_ids, df_long, filtered_df, kpi,
                   monthly_summary_df>>

\* Lines 132-142; df['employee_id'] raises KeyError when the column is absent.
ResolveDuplicates ==
    /\ pc = "dedup"
    /\ IF "employee_id" \in df.idcols
       THEN /\ duplicate_ids' = DuplicateIds(DropDuplicates(df.rows))
            /\ df' \in ResolveOutcomes(df)
            /\ pc' = "reshape"
       ELSE /\ df' = [df EXCEPT !.rows = DropDuplicates(df.rows)]
            /\ pc' = "KeyError"
            /\ UNCHANGED duplicate_ids
    /\ UNCHANGED <<file, ui, df_long, filtered_df, kpi, monthly_summary_df>>

\* ------------------------------------------------- Reshaper, Classifier
RECURSIVE SortAsc(_)
\* sorted(hours_ columns, key=int(suffix)).
SortAsc(S) ==
    IF S = {} THEN <<>>
    ELSE LET m == CHOOSE x \in S : \A y \in S : x <= y
         IN  <<m>> \o SortAsc(S \ {m})

\* df_long['hours_worked'] > 8.
IsPunctualStrict(h) == h # NaN /\ h[1] > PunctualThreshold

\* df_long['hours_worked'] >= 8: a comparison with NaN is False.
IsPunctual(h) == h # NaN /\ h[1] >= PunctualThreshold

\* One row of df_long: the melted cell of row r and column hours_k, with
\* day_num (the digits of the column name), date and is_punctual.
Fact(r, k, start) ==
    [employee_id |-> r.employee_id, employee_gender |-> r.employee_gender,
     employee_resident |-> r.employee_resident,
     employee_department |-> r.employee_department,
     day_num |-> k, hours_worked |-> r.hours[k],
     date |-> start + (k - 1), is_punctual |-> IsPunctual(r.hours[k])]

\* df.melt(id_vars, value_vars=day_cols): column by column, in day_cols
\* order; within a column the rows in table order.
Melt(t, start) ==
    LET day_cols == SortAsc(t.hours_cols)
        n == Len(t.rows)
    IN  [x \in 1..(Len(day_cols) * n) |->
            Fact(t.rows[((x - 1) % n) + 1], day_cols[((x - 1) \div n) + 1], start)]

\* ---------------------------------------------------------------- filters
\* str.lower() on the residency texts that occur.
Lower(s) ==
    CASE s \in {"Local", "LOCAL", "local"} -> "local"
      [] s \in {"Non-local", "NON-LOCAL", "non-local"} -> "non-local"
      [] OTHER -> s

Departments(long) == {long[i].employee_department : i \in 1..Len(long)}

Dates(long) == {long[i].date : i \in 1..Len(long)}

MinOf(S) == CHOOSE x \in S : \A y \in S : x <= y

MaxOf(S) == CHOOSE x \in S : \A y \in S : x >= y

\* The multiselect's value: default=departments until the user changes it.
SelectedDepartments(u, long) ==
    IF u.dept_touched THEN u.departments ELSE Departments(long)

\* The date range widget's value: [min date, max date] until changed.
DateRange(u, long) ==
    IF u.range_touched THEN u.date_range
    ELSE <<MinOf(Dates(long)), MaxOf(Dates(long))>>

\* Lines 191-201 with the department filter applied whatever the selection.
ApplyFiltersAlwaysDept(long, date_range, selected_employees, residency, selected_departments) ==
    LET InRange(f) == f.date >= date_range[1] /\ f.date <= date_range[2]
        IsEmp(f)   == f.employee_id = selected_employees
        IsRes(f)   == Lower(f.employee_resident) = Lower(residency)
        InDept(f)  == f.employee_department \in selected_departments
        f0 == SelectSeq(long, InRange)
        f1 == IF selected_employees # "All" THEN SelectSeq(f0, IsEmp) ELSE f0
        f2 == IF residency # "All" THEN SelectSeq(f1, IsRes) ELSE f1
    IN  SelectSeq(f2, InDept)

\* Lines 191-201.
ApplyFilters(long, date_range, selected_employees, residency, selected_departments) ==
    LET InRange(f) == f.date >= date_range[1] /\ f.date <= date_range[2]
        IsEmp(f)   == f.employee_id = selected_employees
        IsRes(f)   == Lower(f.employee_resident) = Lower(residency)
        InDept(f)  == f.employee_department \in selected_departments
        f0 == SelectSeq(long, InRange)
        f1 == IF selected_employees # "All" THEN SelectSeq(f0, IsEmp) ELSE f0
        f2 == IF residency # "All" THEN SelectSeq(f1, IsRes) ELSE f1
        f3 == IF selected_departments # {} THEN SelectSeq(f2, InDept) ELSE f2
    IN  f3

\* ------------------------------------------------------------- aggregates
\* round(a / b, 0) for b > 0, ties to the even integer as Python's round.
RoundDiv(a, b) ==
    LET q == a \div b
        r == a - q * b
    IN  IF 2 * r < b THEN q
        ELSE IF 2 * r > b THEN q + 1
        ELSE IF q % 2 = 0 THEN q ELSE q + 1

Idx(s) == 1..Len(s)

\* round(Series.mean(), 2): NaN cells are skipped; NaN when none is left.
MeanHours(rows) ==
    LET I == {i \in Idx(rows) : rows[i].hours_worked # NaN}
    IN  IF I = {} THEN NaN
        ELSE Num(RoundDiv(SumSet([i \in I |-> rows[i].hours_worked[1]], I),
                          Cardinality(I)))

PunctualCount(rows) == Cardinality({i \in Idx(rows) : rows[i].is_punctual})

\* round(punctual / n * 100, 2), in hundredths of a percent.
RatePercent(punctual, n) == RoundDiv(punctual * 10000, n)

\* Lines 206-210.
Kpis(rows) ==
    [total_employees |-> Cardinality({rows[i].employee_id : i \in Idx(rows)}),
     total_days |-> Len(rows),
     total_punctual |-> PunctualCount(rows),
     avg_hours |-> MeanHours(rows),
     punctuality_rate |->
        IF Len(rows) # 0 THEN RatePercent(PunctualCount(rows), Len(rows)) ELSE 0]

\* Lines 294-299.
Tab2Metrics(rows) ==
    [total_employees |-> Cardinality({rows[i].employee_id : i \in Idx(rows)}),
     total_days |-> Cardinality(Dates(rows)),
     total_records |-> Len(rows),
     total_punctual |-> PunctualCount(rows),
     avg_hours_worked |-> MeanHours(rows),
     punctuality_rate |->
        IF Len(rows) # 0 THEN RatePercent(PunctualCount(rows), Len(rows)) ELSE 0]

\* dt.to_period('M') of a date within June and July 2025.
MonthOf(d) == IF d < 30 THEN "2025-06" ELSE "2025-07"

\* Lines 328-343: one row per (employee_id, month_year) group.
MonthlySummary(rows) ==
    LET Keys == {<<rows[i].employee_id, MonthOf(rows[i].date)>> : i \in Idx(rows)}
        Grp(key) == PickFrom(rows, 1,
                       {i \in Idx(rows) :
                           <<rows[i].employee_id, MonthOf(rows[i].date)>> = key})
    IN  {[employee_id |-> key[1], month_year |-> key[2],
          Total_Days |-> Len(Grp(key)),
          Punctual_Days |-> PunctualCount(Grp(key)),
          Late_Days |-> Len(Grp(key)) - PunctualCount(Grp(key)),
          Punctuality_Rate |-> RatePercent(PunctualCount(Grp(key)), Len(Grp(key))),
          Avg_Hours_Worked |-> MeanHours(Grp(key)),
          Punctual_Status |->
             IF RatePercent(PunctualCount(Grp(key)), Len(Grp(key))) >= 90 * 100
             THEN "Yes" ELSE "No"] : key \in Keys}

\* Lines 147-159; melt raises KeyError when an id_vars column is absent.
Reshape ==
    /\ pc = "reshape"
    /\ IF IdentityCols \subseteq df.idcols
       THEN df_long' = Melt(df, ui.start_date) /\ pc' = "filter"
       ELSE df_long' = df_long /\ pc' = "KeyError"
    /\ UNCHANGED <<file, ui, df, duplicate_ids, filtered_df, kpi, monthly_summary_df>>

\* Lines 164-201.
Filter ==
    /\ pc = "filter"
    /\ filtered_df' = ApplyFilters(df_long, DateRange(ui, df_long), ui.employee,
                                   ui.residency, SelectedDepartments(ui, df_long))
    /\ pc' = "kpi"
    /\ UNCHANGED <<file, ui, df, duplicate_ids, df_long, kpi, monthly_summary_df>>

\* Lines 206-210.
ComputeKpis ==
    /\ pc = "kpi"
    /\ kpi' = <<Kpis(filtered_df)>>
    /\ pc' = "tabs"
    /\ UNCHANGED <<file, ui, df, duplicate_ids, df_long, filtered_df,
                   monthly_summary_df>>

\* Lines 290-343: the summary tab's metrics and the monthly summary.
RenderTabs ==
    /\ pc = "tabs"
    /\ kpi' = kpi \o <<Tab2Metrics(filtered_df)>>
    /\ monthly_summary_df' = MonthlySummary(filtered_df)
    /\ pc' = "done"
    /\ UNCHANGED <<file, ui, df, duplicate_ids, df_long, filtered_df>>

Next ==
    \/ LoadFile
    \/ DeriveHours
    \/ ResolveDuplicates
    \/ Reshape
    \/ Filter
    \/ ComputeKpis
    \/ RenderTabs

Spec == Init /\ [][Next]_vars

\* ------------------------------------------------------------- properties
\* The table handed to the Duplicate Resolver: the upload with its derived
\* hours columns.
Derived == DurationDeriver(file)

\* The rows the resolver ranks: the derived rows without exact duplicates.
Ranked == DropDuplicates(Derived.rows)

AfterReshape == pc \in {"filter", "kpi", "tabs", "done"}

IdsOf(rows) == {rows[i].employee_id : i \in Idx(rows)}

RowsOf(rows, e) == {i \in Idx(rows) : rows[i].employee_id = e}

\* The day indices k that occur as the suffix of an in_ or out_ column.
InputDayIndices(t) == Range(t.in_cols) \cup Range(t.out_cols)

\* The rows of employee e in `rows` whose total is the greatest of e's rows.
MaxRowsOf(rows, e) ==
    {j \in RowsOf(rows, e) :
        \A l \in RowsOf(rows, e) : TotalHours(rows[j]) >= TotalHours(rows[l])}

\* The Duplicate Resolver has just returned df.
Resolved == pc = "reshape"

\* C1: the number of rows of df_long equals the number of distinct
\* employee_id values left after the Duplicate Resolver times the number of
\* distinct day indices of the input's in_/out_ columns.
C1_FactRowCount ==
    AfterReshape =>
        Len(df_long) = Cardinality(IdsOf(df.rows)) * Cardinality(InputDayIndices(file))

\* C2: every derived hours_k cell is out_k - in_k of the same row and the
\* same day index k, whatever the order of the columns.
C2_HoursFromSameDay ==
    pc = "dedup" =>
        \A k \in DerivedHoursCols(file) : \A i \in Idx(file.rows) :
            /\ k \in Range(file.out_cols)
            /\ df.rows[i].hours[k] =
                  HoursBetween(file.rows[i].t_in[k], file.rows[i].t_out[k])

\* C3: after the Duplicate Resolver every employee_id of the input has
\* exactly one row, an input row whose total of derived hours (absent
\* values counted as 0) is at least the total of every input row of that
\* employee_id.
C3_OneRowPerEmployeeMaxTotal ==
    Resolved =>
        LET D == Derived.rows
        IN  \A e \in IdsOf(D) :
                /\ Cardinality(RowsOf(df.rows, e)) = 1
                /\ \A i \in RowsOf(df.rows, e) :
                      /\ df.rows[i] \in Range(D)
                      /\ \A j \in RowsOf(D, e) :
                            TotalHours(df.rows[i]) >= TotalHours(D[j])

\* Witness of C3: an employee with two input rows of different totals, one of
\* them with an absent hours value, has been resolved.
C3_Witness ==
    /\ Resolved
    /\ \E e \in IdsOf(Derived.rows) : \E i, j \in RowsOf(Derived.rows, e) :
          /\ TotalHours(Derived.rows[i]) > TotalHours(Derived.rows[j])
          /\ \E k \in DOMAIN Derived.rows[i].hours : Derived.rows[i].hours[k] = NaN

\* C4: when several non-identical rows of an employee_id share the maximum
\* total, the row retained is the first of them in the table's order before
\* resolution.
C4_TieKeepsFirst ==
    Resolved =>
        LET R == Ranked
        IN  \A e \in IdsOf(R) :
                Cardinality(MaxRowsOf(R, e)) >= 2 =>
                    \A i \in RowsOf(df.rows, e) : df.rows[i] = R[MinOf(MaxRowsOf(R, e))]

\* What the resolver does guarantee on a tie: exactly one row of that
\* employee_id is retained and it is one of the rows with the maximum total.
TieKeepsSomeMaxRow ==
    Resolved =>
        LET R == Ranked
        IN  \A e \in IdsOf(R) :
                Cardinality(MaxRowsOf(R, e)) >= 2 =>
                    /\ Cardinality(RowsOf(df.rows, e)) = 1
                    /\ \A i \in RowsOf(df.rows, e) :
                          df.rows[i] \in {R[j] : j \in MaxRowsOf(R, e)}

\* C5: the Duplicate Resolver applied to its own output returns that output,
\* rows, row order and columns the same.
C5_ResolverIdempotent ==
    Resolved => ResolveOutcomes(df) = {df}

\* What a second application does guarantee: the same columns and the same
\* rows, every position of the table keeping a row of the same total, so
\* that only rows of equal total may change places.
IdempotentUpToTies ==
    Resolved =>
        \A t \in ResolveOutcomes(df) :
            /\ t.idcols = df.idcols
            /\ t.in_cols = df.in_cols
            /\ t.out_cols = df.out_cols
            /\ t.hours_cols = df.hours_cols
            /\ Len(t.rows) = Len(df.rows)
            /\ Range(t.rows) = Range(df.rows)
            /\ \A i \in Idx(df.rows) :
                  /\ DOMAIN t.rows[i] = DOMAIN df.rows[i]
                  /\ TotalHours(t.rows[i]) = TotalHours(df.rows[i])

\* C6: hours_worked of every fact row is absent or non-negative.
C6_HoursNeverNegative ==
    \A i \in Idx(df_long) :
        df_long[i].hours_worked = NaN \/ df_long[i].hours_worked[1] >= 0

\* C7: a fact row is punctual if and only if its hours_worked is defined and
\* at least 8.0; a row with absent hours_worked is not punctual.
C7_PunctualIffAtLeastEight ==
    \A i \in Idx(df_long) :
        df_long[i].is_punctual <=>
            (df_long[i].hours_worked # NaN /\ df_long[i].hours_worked[1] >= 8 * 100)

\* Witness of C7: the fact table holds a punctual row of exactly 8.0 hours, a
\* row of absent hours and a row below 8.0 hours, neither of them punctual.
C7_Witness ==
    /\ pc = "filter"
    /\ \E i, j, l \in Idx(df_long) :
          /\ df_long[i].hours_worked = Num(8 * 100) /\ df_long[i].is_punctual
          /\ df_long[j].hours_worked = NaN /\ ~df_long[j].is_punctual
          /\ df_long[l].hours_worked # NaN /\ df_long[l].hours_worked[1] < 8 * 100
          /\ ~df_long[l].is_punctual

\* The upload has the four identity columns and an in_k/out_k pair.
SchemaOk(t) ==
    /\ IdentityCols \subseteq t.idcols
    /\ Range(t.in_cols) \cap Range(t.out_cols) # {}

\* C8: an upload that lacks an identity column or an in_k/out_k pair ends in
\* the error outcome before the hours derivation or any later stage has run.
C8_SchemaErrorBeforeDerivation ==
    (file.uploaded /\ ~SchemaOk(file)) => pc \in {"upload", "derive", "KeyError"}

\* C9: when the filters select no fact row the punctuality rate is 0.0 and
\* the mean hours-worked and the monthly summary hold defined values.
C9_EmptyResultDefaults ==
    (pc = "done" /\ filtered_df = <<>>) =>
        /\ kpi[1].punctuality_rate = 0
        /\ kpi[2].punctuality_rate = 0
        /\ kpi[1].avg_hours # NaN
        /\ kpi[2].avg_hours_worked # NaN
        /\ \A m \in monthly_summary_df : m.Avg_Hours_Worked # NaN

\* The predicates of the active filters other than the department filter.
MatchesOthers(f, u, long) ==
    /\ f.date >= DateRange(u, long)[1]
    /\ f.date <= DateRange(u, long)[2]
    /\ (u.employee = "All" \/ f.employee_id = u.employee)
    /\ (u.residency = "All" \/ Lower(f.employee_resident) = Lower(u.residency))

\* C10: the filtered view is the fact rows that satisfy all active
\* predicates; with an empty department selection it is the rows that the
\* other predicates select; and the fact table itself is left unchanged.
C10_FilterConjunctive ==
    [][pc = "filter" =>
        LET NoDept(f) == MatchesOthers(f, ui, df_long)
            WithDept(f) ==
                /\ MatchesOthers(f, ui, df_long)
                /\ f.employee_department \in SelectedDepartments(ui, df_long)
        IN  /\ df_long' = df_long
            /\ filtered_df' =
                  IF SelectedDepartments(ui, df_long) = {}
                  THEN SelectSeq(df_long, NoDept)
                  ELSE SelectSeq(df_long, WithDept)]_vars

\* Witness of C10: with an empty department selection another filter has
\* kept some fact rows and dropped others.
C10_Witness ==
    /\ pc = "kpi"
    /\ ui.dept_touched /\ ui.departments = {}
    /\ filtered_df # <<>>
    /\ Len(filtered_df) < Len(df_long)
====
